---- MODULE Spec2Model ----
(***************************************************************************)
(* Model of scripts/download_claude.py: the concurrent fetch / verify /     *)
(* aggregate pipeline (main_async, get_manifest, download_all_platforms,    *)
(* download_platform, download_file_with_progress) running on one asyncio   *)
(* event loop.  Every await of the coroutines is an action boundary; the    *)
(* code between two awaits is one atomic step.                              *)
(***************************************************************************)
EXTENDS Integers, Sequences, FiniteSets, TLC

(* ------------------------------------------------------------------ *)
(* Program constants                                                   *)
(* ------------------------------------------------------------------ *)
MAX_RETRIES == 3
RETRY_DELAY == 2
SemaphoreCapacity == 7

(* Bound of the model: the number of 8 KiB chunks of a non-empty artifact. *)
MaxChunks == 1

(* PLATFORMS: platform key -> output file name. *)
PLATFORMS ==
  [k \in {"darwin-arm64", "darwin-x64", "linux-arm64", "linux-x64",
          "linux-arm64-musl", "linux-x64-musl", "win32-x64"} |->
     CASE k = "darwin-arm64" -> "claude-darwin-arm64"
       [] k = "darwin-x64" -> "claude-darwin-x64"
       [] k = "linux-arm64" -> "claude-linux-arm64"
       [] k = "linux-x64" -> "claude-linux-x64"
       [] k = "linux-arm64-musl" -> "claude-linux-arm64-musl"
       [] k = "linux-x64-musl" -> "claude-linux-x64-musl"
       [] k = "win32-x64" -> "claude-win32-x64.exe"]

(* Platform keys a manifest may carry that are not in PLATFORMS. *)
UnknownKeys == {"freebsd-x64", "openbsd-x64", "win32-arm64"}

(* The changelog download is one more fetch job, run by the main coroutine. *)
CHANGELOG == "CHANGELOG.md"

PlatformKeys == DOMAIN PLATFORMS \cup UnknownKeys
Jobs == PlatformKeys \cup {CHANGELOG}

(* 'win32' in platform *)
ContainsWin32(platform) == platform \in {"win32-x64", "win32-arm64"}

(* filename = 'claude.exe' if 'win32' in platform else 'claude' *)
BinaryName(platform) == IF ContainsWin32(platform) THEN "claude.exe" ELSE "claude"

(* output_filename = PLATFORMS.get(platform, filename); the changelog is
   written to OUTPUT_DIR / version / "CHANGELOG.md". *)
OutputFilename(job) ==
  IF job = CHANGELOG THEN CHANGELOG
  ELSE IF job \in DOMAIN PLATFORMS THEN PLATFORMS[job] ELSE BinaryName(job)

Paths == {OutputFilename(j) : j \in Jobs}

(* ------------------------------------------------------------------ *)
(* Contents, hashes                                                    *)
(* ------------------------------------------------------------------ *)
(* A chunk is <<origin, kind, index>>; a file content is a sequence of chunks. *)
ChunkOf(job, kind, i) == <<job, kind, i>>
HoleChunk == <<"hole", "zero", 0>>
ContentOf(job, kind, n) == [i \in 1..n |-> ChunkOf(job, kind, i)]

(* hashlib.sha256(...).hexdigest(): a collision-free digest of the bytes, in
   lower-case hex.  A checksum string is its digest and the case it is
   written in. *)
HexDigest(content) == [digest |-> content, case |-> "lower"]
(* str.lower() *)
Lower(hex) == [hex EXCEPT !.case = "lower"]
(* str.upper(), as a manifest may write its checksums *)
Upper(hex) == [hex EXCEPT !.case = "upper"]

NoChecksum == [digest |-> <<>>, case |-> "none"]

(* ------------------------------------------------------------------ *)
(* Manifests: the JSON documents the manifest endpoint may answer with  *)
(* ------------------------------------------------------------------ *)
(* One platform entry: key and info {size, checksum}; a missing JSON key is
   hasSize / hasChecksum = FALSE.  size is in chunks. *)
Entry(key, size, case) ==
  [key |-> key, hasSize |-> TRUE, size |-> size, hasChecksum |-> TRUE,
   checksum |-> IF case = "upper" THEN Upper(HexDigest(ContentOf(key, "good", size)))
                ELSE HexDigest(ContentOf(key, "good", size))]
EntryNoChecksum(key, size) ==
  [key |-> key, hasSize |-> TRUE, size |-> size, hasChecksum |-> FALSE,
   checksum |-> NoChecksum]
EntryNoSize(key) ==
  [key |-> key, hasSize |-> FALSE, size |-> 0, hasChecksum |-> TRUE,
   checksum |-> HexDigest(ContentOf(key, "good", 0))]

(* A manifest: its platforms in JSON (dict iteration) order. *)
Manifest(platforms) ==
  [hasVersion |-> TRUE, hasBuildDate |-> TRUE, hasPlatforms |-> TRUE,
   platforms |-> platforms]
ManifestNoPlatforms ==
  [hasVersion |-> TRUE, hasBuildDate |-> TRUE, hasPlatforms |-> FALSE,
   platforms |-> <<>>]
ManifestNoBuildDate ==
  [hasVersion |-> TRUE, hasBuildDate |-> FALSE, hasPlatforms |-> TRUE,
   platforms |-> <<Entry("linux-x64", 0, "lower")>>]


(* ------------------------------------------------------------------ *)
(* Scenarios: the manifest served and the jobs whose transfers may fail *)
(* or carry corrupt bytes (the rest of the network is reliable)         *)
(* ------------------------------------------------------------------ *)
KeysOf(manifest) == {manifest.platforms[i].key : i \in 1..Len(manifest.platforms)}

Scenario(manifest, flaky) == [manifest |-> manifest, flaky |-> flaky \cup {CHANGELOG}]
AllFlaky(manifest) == Scenario(manifest, KeysOf(manifest))

OnePlatform == Manifest(<<Entry("linux-x64", MaxChunks, "lower")>>)
TwoPlatforms ==
  Manifest(<<Entry("linux-x64", MaxChunks, "lower"), Entry("win32-x64", MaxChunks, "upper")>>)
TwoUnknownKeys ==
  Manifest(<<Entry("freebsd-x64", MaxChunks, "lower"), Entry("openbsd-x64", MaxChunks, "lower")>>)
MissingChecksum ==
  Manifest(<<EntryNoChecksum("linux-x64", MaxChunks), Entry("darwin-x64", MaxChunks, "lower")>>)
MissingSize ==
  Manifest(<<Entry("linux-x64", MaxChunks, "lower"), EntryNoSize("darwin-x64")>>)
EmptyArtifact == Manifest(<<Entry("linux-arm64", 0, "lower")>>)
NoPlatformsAtAll == Manifest(<<>>)

(* More platforms than permits: the seven known keys and two unknown ones,
   with empty artifacts. *)
NinePlatforms ==
  Manifest(<<Entry("darwin-arm64", 0, "lower"), Entry("darwin-x64", 0, "lower"),
             Entry("linux-arm64", 0, "lower"), Entry("linux-x64", 0, "lower"),
             Entry("linux-arm64-musl", 0, "lower"), Entry("linux-x64-musl", 0, "lower"),
             Entry("win32-x64", 0, "lower"), Entry("freebsd-x64", 0, "lower"),
             Entry("win32-arm64", 0, "lower")>>)
NinePlatformsMissingChecksum ==
  Manifest(<<EntryNoChecksum("darwin-arm64", 0), Entry("darwin-x64", 0, "lower"),
             Entry("linux-arm64", 0, "lower"), Entry("linux-x64", 0, "lower"),
             Entry("linux-arm64-musl", 0, "lower"), Entry("linux-x64-musl", 0, "lower"),
             Entry("win32-x64", 0, "lower"), Entry("freebsd-x64", 0, "lower"),
             Entry("win32-arm64", 0, "lower")>>)

Scenarios ==
  { AllFlaky(OnePlatform), AllFlaky(TwoPlatforms), AllFlaky(TwoUnknownKeys),
    AllFlaky(MissingChecksum), AllFlaky(MissingSize), AllFlaky(EmptyArtifact),
    AllFlaky(NoPlatformsAtAll), AllFlaky(ManifestNoPlatforms),
    AllFlaky(ManifestNoBuildDate),
    Scenario(NinePlatforms, {"darwin-arm64"}),
    Scenario(NinePlatformsMissingChecksum, {}) }


(* ------------------------------------------------------------------ *)
(* State                                                               *)
(* ------------------------------------------------------------------ *)
VARIABLES
  env,        \* the scenario: what the endpoints serve in this run
  mainpc,     \* position of main_async: "version", "manifest", "gather",
              \* "dl_raised", "changelog", "exited"
  pc,         \* per job: "absent", "pending", "waiting", "connecting",
              \* "streaming", "hung", "sleeping", "done", "cancelled"
  attempt,    \* per job: the loop variable of download_file_with_progress
  kind,       \* per job: the bytes the response of the current attempt carries
  handle,     \* per job: the file object f of the current attempt
  disk,       \* per path: whether the file exists, and its content
  permits,    \* semaphore._value
  waiters,    \* semaphore._waiters, first come first served
  outcome,    \* per job: what its coroutine ended with
  hist,       \* per job: what it has done so far (counters read by the properties)
  completed,  \* what asyncio.gather returned
  results,    \* the dict results of download_all_platforms
  checksums,  \* the list checksums of download_all_platforms
  dlState,    \* download_all_platforms: "none", "running", "returned", "raised", "exit"
  exitCode,   \* the process exit status, -1 while it runs
  interrupted,\* a KeyboardInterrupt ended the run
  stateFiles  \* the state files save_version_info has written

vars == <<env, mainpc, pc, attempt, kind, handle, disk, permits, waiters, outcome,
          hist, completed, results, checksums, dlState, exitCode, interrupted,
          stateFiles>>

manifest == env.manifest
PlatformSeq == manifest.platforms
Platforms == KeysOf(manifest)
EntryOf(platform) ==
  PlatformSeq[CHOOSE i \in 1..Len(PlatformSeq) : PlatformSeq[i].key = platform]

(* The number of chunks the response body of a job has. *)
NChunks(job) == IF job = CHANGELOG THEN MaxChunks ELSE EntryOf(job).size

ClosedHandle == [open |-> FALSE, att |-> FALSE, off |-> 0]
NoFile == [exists |-> FALSE, data |-> <<>>]
NoHist == [started |-> 0, attempts |-> 0, failures |-> 0, sleeps |-> 0, slept |-> 0,
           fetched |-> "none", own |-> "none", verified |-> FALSE, acquired |-> FALSE,
           message |-> <<>>, updates |-> "none"]

Init ==
  /\ env \in Scenarios
  /\ mainpc = "version"
  /\ pc = [j \in Jobs |-> "absent"]
  /\ attempt = [j \in Jobs |-> 0]
  /\ kind = [j \in Jobs |-> "none"]
  /\ handle = [j \in Jobs |-> ClosedHandle]
  /\ disk = [f \in Paths |-> NoFile]
  /\ permits = SemaphoreCapacity
  /\ waiters = <<>>
  /\ outcome = [j \in Jobs |-> "none"]
  /\ hist = [j \in Jobs |-> NoHist]
  /\ completed = <<>>
  /\ results = [k \in {} |-> FALSE]
  /\ checksums = <<>>
  /\ dlState = "none"
  /\ exitCode = -1
  /\ interrupted = FALSE
  /\ stateFiles = {}

(* ------------------------------------------------------------------ *)
(* Files                                                               *)
(* ------------------------------------------------------------------ *)
(* open(output_path, 'wb'): creates the file or truncates the existing one. *)
OpenTruncate(d, path) == [d EXCEPT ![path] = [exists |-> TRUE, data |-> <<>>]]

(* f.write(chunk) at the position of the file object; a position past the end
   of a file truncated by someone else leaves a hole. *)
WriteAt(data, off, chunk) ==
  IF off < Len(data) THEN [data EXCEPT ![off + 1] = chunk]
  ELSE data \o [i \in 1..(off - Len(data)) |-> HoleChunk] \o <<chunk>>

(* output_path.unlink(): the name goes; file objects still open on it keep
   writing to a file no path leads to. *)
Unlink(d, path) == [d EXCEPT ![path] = NoFile]
Detach(h, path, job) ==
  [j \in Jobs |->
     IF j = job THEN ClosedHandle
     ELSE IF h[j].open /\ h[j].att /\ OutputFilename(j) = path
          THEN [h[j] EXCEPT !.att = FALSE] ELSE h[j]]

(* calculate_sha256(file_path) *)
calculate_sha256(d, path) == HexDigest(d[path].data)


(* ------------------------------------------------------------------ *)
(* The semaphore of download_all_platforms                             *)
(* ------------------------------------------------------------------ *)
(* Mutant of Locked: the semaphore lets one task too many through. *)
Locked_OffByOne(value) == value < 0

(* semaphore.locked() *)
Locked(value) == value <= 0

(* semaphore.release(): the permit goes to the first waiter, or back to the
   pool when nobody waits. *)
ValueAfterRelease(value, ws) == IF ws = <<>> THEN value + 1 ELSE value
WaitersAfterRelease(ws) == IF ws = <<>> THEN ws ELSE Tail(ws)

(* A job that is inside the body of `async with semaphore`. *)
Holding(state) == state \in {"connecting", "streaming", "sleeping", "hung"}
Live(state) == state \in {"pending", "waiting"} \/ Holding(state)
Holders == {p \in PlatformKeys : Holding(pc[p])}

EnterSequence(h) ==
  [h EXCEPT !.started = @ + 1, !.attempts = @ + 1, !.acquired = TRUE]

(* ------------------------------------------------------------------ *)
(* download_file_with_progress: the retry loop                          *)
(* ------------------------------------------------------------------ *)
(* Mutant of ShouldRetry: the loop compares with MAX_RETRIES. *)
ShouldRetry_OneTooMany(a) == a < MAX_RETRIES

(* if attempt < MAX_RETRIES - 1: sleep and go round again; else return False *)
ShouldRetry(a) == a < MAX_RETRIES - 1

(* actual_checksum.lower() == info['checksum'].lower() *)
ChecksumMatches(actual, expected) == Lower(actual) = Lower(expected)

(* What the response of one attempt may carry. *)
KindsServed(job) ==
  IF job \in env.flaky /\ job # CHANGELOG /\ NChunks(job) > 0
  THEN {"good", "bad"} ELSE {"good"}

(* main_async is awaiting the job's network I/O: the event loop has run the
   first step of every task before it polls for I/O. *)
Running(job) ==
  IF job = CHANGELOG THEN mainpc = "changelog"
  ELSE /\ mainpc \in {"gather", "dl_raised"}
       /\ job \in Platforms
       /\ \A p \in Platforms : pc[p] # "pending"

(* ------------------------------------------------------------------ *)
(* Leaving the process: sys.exit / return of main; asyncio.run cancels   *)
(* whatever task is still alive                                          *)
(* ------------------------------------------------------------------ *)
ExitWith(code, pcs, hs) ==
  /\ mainpc' = "exited"
  /\ exitCode' = code
  /\ pc' = [j \in Jobs |-> IF Live(pcs[j]) THEN "cancelled" ELSE pcs[j]]
  /\ handle' = [j \in Jobs |-> ClosedHandle]
  /\ permits' = permits + Cardinality({p \in PlatformKeys : Holding(pcs[p])})
  /\ waiters' = <<>>
  /\ hist' = hs

(* ------------------------------------------------------------------ *)
(* download_platform after the fetch has returned                       *)
(* ------------------------------------------------------------------ *)
(* The task ends (return or raise) and `async with semaphore` releases. *)
EndTask(p, out, hp) ==
  /\ outcome' = [outcome EXCEPT ![p] = out]
  /\ permits' = ValueAfterRelease(permits, waiters)
  /\ waiters' = WaitersAfterRelease(waiters)
  /\ IF waiters = <<>>
     THEN /\ pc' = [pc EXCEPT ![p] = "done"]
          /\ hist' = [hist EXCEPT ![p] = hp]
     ELSE /\ pc' = [pc EXCEPT ![p] = "done", ![Head(waiters)] = "connecting"]
          /\ hist' = [hist EXCEPT ![p] = hp, ![Head(waiters)] = EnterSequence(@)]

PlatformReturned(p, ok, h, hp) ==
  LET path == OutputFilename(p)
      e == EntryOf(p)
      actual == calculate_sha256(disk, path)
      hv == [hp EXCEPT !.fetched = "ok", !.own = kind[p], !.verified = TRUE]
  IN /\ IF ~ok
        THEN \* return False, platform, "download failed"
             /\ EndTask(p, "FetchFailed", [hp EXCEPT !.fetched = "failed"])
             /\ disk' = disk /\ handle' = h
        ELSE IF ~disk[path].exists
        THEN \* calculate_sha256: open() raises FileNotFoundError
             /\ EndTask(p, "Raised", hv)
             /\ disk' = disk /\ handle' = h
        ELSE IF ~e.hasChecksum
        THEN \* info['checksum'] raises KeyError
             /\ EndTask(p, "Raised", hv)
             /\ disk' = disk /\ handle' = h
        ELSE IF ChecksumMatches(actual, e.checksum)
        THEN /\ EndTask(p, "Success", [hv EXCEPT !.message = <<actual, path>>])
             /\ disk' = disk /\ handle' = h
        ELSE \* output_path.unlink()
             /\ EndTask(p, "ChecksumMismatch", hv)
             /\ disk' = Unlink(disk, path)
             /\ handle' = Detach(h, path, p)
     /\ UNCHANGED <<env, mainpc, completed, results, checksums, dlState, exitCode,
                    interrupted, stateFiles>>

(* ------------------------------------------------------------------ *)
(* main_async after download_changelog: parse, save_version_info, return *)
(* ------------------------------------------------------------------ *)
(* Mutant of SavedFiles: the release notes are written whatever was parsed. *)
SavedFiles_NotesAlways(entries) ==
  {".version", ".build_date", ".checksums", ".latest_updates", ".release_notes"}

(* save_version_info: the last two files only `if latest_updates`. *)
SavedFiles(entries) ==
  {".version", ".build_date", ".checksums"}
    \cup (IF entries = "some" THEN {".latest_updates", ".release_notes"} ELSE {})

(* download_changelog returned or raised RuntimeError; parse_changelog finds
   entries or none (or raises); every failure is taken by the inner
   `except Exception`, which leaves latest_updates = []. *)
ChangelogReturned(ok, h, hp) ==
  /\ \E entries \in (IF ok THEN {"none", "some"} ELSE {"none"}) :
       /\ stateFiles' = SavedFiles(entries)
       /\ ExitWith(0, [pc EXCEPT ![CHANGELOG] = "done"],
                   [hist EXCEPT ![CHANGELOG] =
                      [hp EXCEPT !.fetched = IF ok THEN "ok" ELSE "failed",
                                 !.updates = entries]])
  /\ outcome' = [outcome EXCEPT ![CHANGELOG] = IF ok THEN "Success" ELSE "FetchFailed"]
  /\ UNCHANGED <<env, disk, completed, results, checksums, dlState, interrupted>>

Returned(job, ok, h, hp) ==
  IF job = CHANGELOG THEN ChangelogReturned(ok, h, hp)
  ELSE PlatformReturned(job, ok, h, hp)


(* ------------------------------------------------------------------ *)
(* Actions of one fetch job (download_file_with_progress)               *)
(* ------------------------------------------------------------------ *)
(* An attempt raised: except Exception. *)
Failed(job, h) ==
  LET hp == [hist[job] EXCEPT !.failures = @ + 1]
  IN IF ShouldRetry(attempt[job])
     THEN \* await asyncio.sleep(RETRY_DELAY)
          /\ pc' = [pc EXCEPT ![job] = "sleeping"]
          /\ hist' = [hist EXCEPT ![job] = [hp EXCEPT !.sleeps = @ + 1]]
          /\ handle' = h
          /\ UNCHANGED <<env, mainpc, disk, permits, waiters, outcome, completed,
                         results, checksums, dlState, exitCode, interrupted, stateFiles>>
     ELSE \* return False
          Returned(job, FALSE, h, hp)

(* session.get answered 2xx: open(output_path, 'wb'), wait for the first chunk. *)
ConnectOk(job) ==
  /\ pc[job] = "connecting"
  /\ Running(job)
  /\ \E k \in KindsServed(job) : kind' = [kind EXCEPT ![job] = k]
  /\ disk' = OpenTruncate(disk, OutputFilename(job))
  /\ handle' = [handle EXCEPT ![job] = [open |-> TRUE, att |-> TRUE, off |-> 0]]
  /\ pc' = [pc EXCEPT ![job] = "streaming"]
  /\ UNCHANGED <<env, mainpc, attempt, permits, waiters, outcome, hist, completed,
                 results, checksums, dlState, exitCode, interrupted, stateFiles>>

(* session.get, raise_for_status or open raised (refused, non-2xx, timeout). *)
ConnectFail(job) ==
  /\ pc[job] = "connecting"
  /\ Running(job)
  /\ job \in env.flaky
  /\ Failed(job, handle)
  /\ UNCHANGED <<attempt, kind>>

(* One chunk arrived: f.write(chunk). *)
Chunk(job) ==
  /\ pc[job] = "streaming"
  /\ Running(job)
  /\ handle[job].off < NChunks(job)
  /\ LET path == OutputFilename(job)
         c == ChunkOf(job, kind[job], handle[job].off + 1)
     IN disk' = IF handle[job].att
                THEN [disk EXCEPT ![path].data = WriteAt(@, handle[job].off, c)]
                ELSE disk
  /\ handle' = [handle EXCEPT ![job].off = @ + 1]
  /\ UNCHANGED <<env, mainpc, pc, attempt, kind, permits, waiters, outcome, hist,
                 completed, results, checksums, dlState, exitCode, interrupted,
                 stateFiles>>

(* The stream or a write raised (reset, timeout, disk full): `with` closes f. *)
StreamFail(job) ==
  /\ pc[job] = "streaming"
  /\ Running(job)
  /\ job \in env.flaky
  /\ Failed(job, [handle EXCEPT ![job] = ClosedHandle])
  /\ UNCHANGED <<attempt, kind>>

(* The server stops answering: the request neither completes nor fails. *)
Hang(job) ==
  /\ pc[job] \in {"connecting", "streaming"}
  /\ Running(job)
  /\ job \in env.flaky
  /\ pc' = [pc EXCEPT ![job] = "hung"]
  /\ UNCHANGED <<env, mainpc, attempt, kind, handle, disk, permits, waiters, outcome,
                 hist, completed, results, checksums, dlState, exitCode, interrupted,
                 stateFiles>>

(* TIMEOUT = ClientTimeout(total=120, connect=30): the hanging request raises
   asyncio.TimeoutError, which `except Exception` takes as a failed attempt. *)
Timeout(job) ==
  /\ pc[job] = "hung"
  /\ Running(job)
  /\ Failed(job, [handle EXCEPT ![job] = ClosedHandle])
  /\ UNCHANGED <<attempt, kind>>

(* End of the body: f is closed, return True; the caller goes on at once. *)
StreamEnd(job) ==
  /\ pc[job] = "streaming"
  /\ Running(job)
  /\ handle[job].off = NChunks(job)
  /\ Returned(job, TRUE, [handle EXCEPT ![job] = ClosedHandle], hist[job])
  /\ UNCHANGED <<attempt, kind>>

(* asyncio.sleep(RETRY_DELAY) is over: the next round of the loop. *)
WakeRetry(job) ==
  /\ pc[job] = "sleeping"
  /\ Running(job)
  /\ attempt' = [attempt EXCEPT ![job] = @ + 1]
  /\ pc' = [pc EXCEPT ![job] = "connecting"]
  /\ hist' = [hist EXCEPT ![job] =
                [@ EXCEPT !.slept = @ + RETRY_DELAY, !.attempts = @ + 1]]
  /\ UNCHANGED <<env, mainpc, kind, handle, disk, permits, waiters, outcome,
                 completed, results, checksums, dlState, exitCode, interrupted,
                 stateFiles>>

(* ------------------------------------------------------------------ *)
(* download_platform: the first step of a task, `async with semaphore`   *)
(* ------------------------------------------------------------------ *)
FirstPending ==
  LET idx == {i \in 1..Len(PlatformSeq) : pc[PlatformSeq[i].key] = "pending"}
  IN PlatformSeq[CHOOSE i \in idx : \A k \in idx : i <= k].key

StartTask(p) ==
  /\ mainpc = "gather"
  /\ p \in Platforms
  /\ pc[p] = "pending"
  /\ p = FirstPending
  /\ IF ~Locked(permits)
     THEN /\ permits' = permits - 1
          /\ waiters' = waiters
          /\ pc' = [pc EXCEPT ![p] = "connecting"]
          /\ hist' = [hist EXCEPT ![p] = EnterSequence(@)]
     ELSE /\ permits' = permits
          /\ waiters' = Append(waiters, p)
          /\ pc' = [pc EXCEPT ![p] = "waiting"]
          /\ hist' = hist
  /\ UNCHANGED <<env, mainpc, attempt, kind, handle, disk, outcome, completed,
                 results, checksums, dlState, exitCode, interrupted, stateFiles>>


(* ------------------------------------------------------------------ *)
(* main_async, get_latest_version, get_manifest                         *)
(* ------------------------------------------------------------------ *)
GetVersionOk ==
  /\ mainpc = "version"
  /\ mainpc' = "manifest"
  /\ UNCHANGED <<env, pc, attempt, kind, handle, disk, permits, waiters, outcome,
                 hist, completed, results, checksums, dlState, exitCode, interrupted,
                 stateFiles>>

(* The request raised: except aiohttp.ClientError / Exception: sys.exit(1). *)
GetVersionFail ==
  /\ mainpc = "version"
  /\ ExitWith(1, pc, hist)
  /\ UNCHANGED <<env, attempt, kind, disk, outcome, completed, results, checksums,
                 dlState, interrupted, stateFiles>>

(* get_manifest reads manifest['version'], ['buildDate'], ['platforms'] and
   every info['size'] to print them: a missing key is a KeyError. *)
GetManifestRaises(m) ==
  \/ ~m.hasVersion
  \/ ~m.hasBuildDate
  \/ ~m.hasPlatforms
  \/ \E i \in 1..Len(m.platforms) : ~m.platforms[i].hasSize

(* get_manifest returned; download_all_platforms builds one coroutine per
   platform and hands them to asyncio.gather. *)
GetManifestOk ==
  /\ mainpc = "manifest"
  /\ ~GetManifestRaises(manifest)
  /\ mainpc' = "gather"
  /\ dlState' = "running"
  /\ pc' = [j \in Jobs |-> IF j \in Platforms THEN "pending" ELSE pc[j]]
  /\ UNCHANGED <<env, attempt, kind, handle, disk, permits, waiters, outcome, hist,
                 completed, results, checksums, exitCode, interrupted, stateFiles>>

GetManifestMalformed ==
  /\ mainpc = "manifest"
  /\ GetManifestRaises(manifest)
  /\ ExitWith(1, pc, hist)
  /\ UNCHANGED <<env, attempt, kind, disk, outcome, completed, results, checksums,
                 dlState, interrupted, stateFiles>>

GetManifestFail ==
  /\ mainpc = "manifest"
  /\ ExitWith(1, pc, hist)
  /\ UNCHANGED <<env, attempt, kind, disk, outcome, completed, results, checksums,
                 dlState, interrupted, stateFiles>>

(* ------------------------------------------------------------------ *)
(* download_all_platforms: gather, aggregate                            *)
(* ------------------------------------------------------------------ *)
(* The tuple a task returned: (success, platform, message). *)
TaskReturn(p) ==
  [success |-> outcome[p] = "Success", platform |-> p, message |-> hist[p].message]

(* completed = await asyncio.gather of the tasks: the results in task order. *)
Gathered == [i \in 1..Len(PlatformSeq) |-> TaskReturn(PlatformSeq[i].key)]

(* for success, platform, message in completed: results[platform] = (success, message) *)
ResultsOf(done) ==
  [k \in {done[i].platform : i \in 1..Len(done)} |->
     LET last == CHOOSE i \in 1..Len(done) :
                   /\ done[i].platform = k
                   /\ \A n \in 1..Len(done) : done[n].platform = k => n <= i
     IN done[last].success]

(* Mutant of ChecksumsOf: the records are collected last task first. *)
ChecksumsOf_Reversed(done) ==
  LET ok == SelectSeq(done, LAMBDA r : r.success)
  IN [i \in 1..Len(ok) |-> ok[Len(ok) + 1 - i].message]

(* if success: checksums.append(message) *)
RECURSIVE ChecksumsOf(_)
ChecksumsOf(done) ==
  IF done = <<>> THEN <<>>
  ELSE IF Head(done).success
       THEN <<Head(done).message>> \o ChecksumsOf(Tail(done))
       ELSE ChecksumsOf(Tail(done))

(* Mutant of success_count: every result counts as a success. *)
success_count_CountsAll(res) == Cardinality(DOMAIN res)

success_count(res) == Cardinality({k \in DOMAIN res : res[k]})

(* Mutant of total_count: only the successes are counted. *)
total_count_OfSuccesses(res) == success_count(res)

total_count(res) == Cardinality(DOMAIN res)

(* Mutant of AllReturned: the join returns with the first task that is done. *)
AllReturned_FirstCompleted ==
  \E p \in Platforms : pc[p] = "done" /\ outcome[p] # "Raised"

(* gather is done when every task has returned. *)
AllReturned == \A p \in Platforms : pc[p] = "done" /\ outcome[p] # "Raised"

Join ==
  /\ mainpc = "gather"
  /\ AllReturned
  /\ completed' = Gathered
  /\ results' = ResultsOf(Gathered)
  /\ checksums' = ChecksumsOf(Gathered)
  /\ IF success_count(ResultsOf(Gathered)) < total_count(ResultsOf(Gathered))
     THEN \* sys.exit(1)
          /\ dlState' = "exit"
          /\ ExitWith(1, pc, hist)
          /\ UNCHANGED <<env, attempt, kind, disk, outcome, interrupted, stateFiles>>
     ELSE \* return results, checksums; main_async calls download_changelog
          /\ dlState' = "returned"
          /\ mainpc' = "changelog"
          /\ pc' = [pc EXCEPT ![CHANGELOG] = "connecting"]
          /\ hist' = [hist EXCEPT ![CHANGELOG] = EnterSequence(@)]
          /\ UNCHANGED <<env, attempt, kind, handle, disk, permits, waiters, outcome,
                         exitCode, interrupted, stateFiles>>

(* A task raised: gather (return_exceptions=False) passes the first exception
   to its awaiter at once and leaves the other tasks running. *)
JoinRaise ==
  /\ mainpc = "gather"
  /\ \E p \in Platforms : outcome[p] = "Raised"
  /\ mainpc' = "dl_raised"
  /\ dlState' = "raised"
  /\ UNCHANGED <<env, pc, attempt, kind, handle, disk, permits, waiters, outcome,
                 hist, completed, results, checksums, exitCode, interrupted,
                 stateFiles>>

(* main_async: except Exception: sys.exit(1). *)
MainExitAfterRaise ==
  /\ mainpc = "dl_raised"
  /\ ExitWith(1, pc, hist)
  /\ UNCHANGED <<env, attempt, kind, disk, outcome, completed, results, checksums,
                 dlState, interrupted, stateFiles>>

(* main: except KeyboardInterrupt: sys.exit(1). *)
Interrupt ==
  /\ mainpc # "exited"
  /\ interrupted' = TRUE
  /\ dlState' = IF dlState = "running" THEN "cancelled" ELSE dlState
  /\ ExitWith(1, pc, hist)
  /\ UNCHANGED <<env, attempt, kind, disk, outcome, completed, results, checksums,
                 stateFiles>>

Next ==
  \/ GetVersionOk
  \/ GetVersionFail
  \/ GetManifestOk
  \/ GetManifestMalformed
  \/ GetManifestFail
  \/ \E p \in PlatformKeys : StartTask(p)
  \/ \E j \in Jobs : ConnectOk(j)
  \/ \E j \in Jobs : ConnectFail(j)
  \/ \E j \in Jobs : Chunk(j)
  \/ \E j \in Jobs : StreamFail(j)
  \/ \E j \in Jobs : Hang(j)
  \/ \E j \in Jobs : Timeout(j)
  \/ \E j \in Jobs : StreamEnd(j)
  \/ \E j \in Jobs : WakeRetry(j)
  \/ Join
  \/ JoinRaise
  \/ MainExitAfterRaise
  \/ Interrupt

Spec == Init /\ [][Next]_vars


(* ================================================================== *)
(* Properties                                                          *)
(* ================================================================== *)
Terminal(state) == state \in {"done", "cancelled"}
Exited == exitCode # -1
PathTaken(path) == disk[path].exists
(* Some platform that writes to this path ended in Success. *)
VerifiedAt(path) ==
  \E q \in Platforms : OutputFilename(q) = path /\ outcome[q] = "Success"
Aggregated == dlState \in {"returned", "exit"}
(* A manifest without `platforms`, or with an entry without size or checksum. *)
Malformed(m) ==
  \/ ~m.hasPlatforms
  \/ \E i \in 1..Len(m.platforms) :
       ~m.platforms[i].hasSize \/ ~m.platforms[i].hasChecksum

(* C1: when download_all_platforms aggregates, gather has returned exactly one
   result per platform key of the manifest, results has exactly these keys,
   every platform has a final outcome, and every platform's fetch+verify
   sequence was entered exactly once. *)
C1_OneOutcomePerKey ==
  Aggregated =>
    /\ Len(completed) = Cardinality(Platforms)
    /\ \A p \in Platforms :
         /\ Cardinality({i \in 1..Len(completed) : completed[i].platform = p}) = 1
         /\ outcome[p] \in {"Success", "FetchFailed", "ChecksumMismatch"}
         /\ hist[p].started = 1
    /\ DOMAIN results = Platforms
    /\ total_count(results) = Cardinality(Platforms)

C1_Witness ==
  /\ Aggregated
  /\ \E p, q \in Platforms :
       outcome[p] = "FetchFailed" /\ outcome[q] = "ChecksumMismatch"

(* C2: at no instant are more than SemaphoreCapacity tasks inside the body of
   `async with semaphore`; a task asleep between two attempts is inside. *)
C2_AtMostSevenInFlight == Cardinality(Holders) <= SemaphoreCapacity

C2_Witness ==
  /\ Cardinality(Holders) = SemaphoreCapacity
  /\ waiters # <<>>
  /\ \E p \in Holders : pc[p] = "sleeping"

(* C3: with a well-formed manifest, if some platform ended in
   ChecksumMismatch then, once every task has
   ended in one of the three outcomes, no file is on disk at the path of a
   platform unless a checksum was verified for it, and the run does not exit 0. *)
C3_NothingUnverifiedAfterMismatch ==
  ( /\ ~Malformed(manifest)
    /\ \E m \in Platforms : outcome[m] = "ChecksumMismatch"
    /\ \A p \in Platforms :
         outcome[p] \in {"Success", "FetchFailed", "ChecksumMismatch"} )
  => /\ \A p \in Platforms :
          PathTaken(OutputFilename(p)) => VerifiedAt(OutputFilename(p))
     /\ exitCode # 0

(* C4: a platform whose fetch failed on all attempts is FetchFailed, was never
   verified, and has no file on disk when the run has ended. *)
C4_FetchFailedLeavesNoFile ==
  \A p \in Platforms :
    outcome[p] = "FetchFailed" =>
      /\ hist[p].failures = MAX_RETRIES
      /\ ~hist[p].verified
      /\ Exited => (PathTaken(OutputFilename(p)) => VerifiedAt(OutputFilename(p)))

(* C5: a fetch makes at most MAX_RETRIES attempts; every failure uses up one
   attempt; it returns True at the first attempt that completes and False only
   after MAX_RETRIES failures; it sleeps RETRY_DELAY once between two
   consecutive attempts, never before the first nor after the last. *)
C5_RetryPolicy ==
  \A j \in Jobs :
    LET h == hist[j] IN
    /\ h.attempts <= MAX_RETRIES
    /\ pc[j] \in {"connecting", "streaming", "hung"} =>
         /\ h.failures = h.attempts - 1
         /\ h.sleeps = h.attempts - 1
         /\ h.slept = RETRY_DELAY * (h.attempts - 1)
    /\ pc[j] = "sleeping" =>
         /\ h.failures = h.attempts
         /\ h.attempts < MAX_RETRIES
         /\ h.sleeps = h.attempts
         /\ h.slept = RETRY_DELAY * (h.attempts - 1)
    /\ h.fetched = "ok" =>
         /\ h.failures = h.attempts - 1
         /\ h.sleeps = h.attempts - 1
         /\ h.slept = RETRY_DELAY * (h.attempts - 1)
    /\ h.fetched = "failed" =>
         /\ h.attempts = MAX_RETRIES
         /\ h.failures = MAX_RETRIES
         /\ h.sleeps = MAX_RETRIES - 1
         /\ h.slept = RETRY_DELAY * (MAX_RETRIES - 1)

C5_Witness ==
  \E j, k \in Jobs :
    /\ hist[j].fetched = "failed" /\ hist[j].slept = RETRY_DELAY * 2
    /\ hist[k].fetched = "ok" /\ hist[k].attempts = 2

(* C6: download_all_platforms has not returned, raised or exited while a task
   of the manifest is still running. *)
C6_NoTaskOutlivesTheCall ==
  dlState \in {"returned", "raised", "exit"} =>
    \A p \in Platforms : Terminal(pc[p])

(* C7: the process exits 0 exactly when the manifest was obtained, every
   platform ended in Success and no interrupt came; then success_count equals
   total_count.  Every other exit is 1. *)
C7_ExitStatus ==
  Exited =>
    /\ exitCode \in {0, 1}
    /\ exitCode = 0 <=>
         /\ dlState # "none"
         /\ \A p \in Platforms : outcome[p] = "Success"
         /\ ~interrupted
    /\ exitCode = 0 =>
         /\ success_count(results) = total_count(results)
         /\ total_count(results) = Cardinality(Platforms)

C7_Witness ==
  /\ exitCode = 0
  /\ Cardinality(Platforms) = 2
  /\ \E p \in Platforms : hist[p].failures > 0

(* C8: the step in which a platform ends in FetchFailed or ChecksumMismatch
   leaves every other platform task that is streaming as it was: its
   position, its attempt, its open file and the file at its path. *)
C8_FailureTouchesNoSibling ==
  [][\A q \in PlatformKeys :
       (outcome[q] = "none" /\ outcome'[q] \in {"FetchFailed", "ChecksumMismatch"})
       => \A p \in PlatformKeys \ {q} :
            pc[p] = "streaming" =>
              /\ pc'[p] = pc[p]
              /\ attempt'[p] = attempt[p]
              /\ handle'[p] = handle[p]
              /\ disk'[OutputFilename(p)] = disk[OutputFilename(p)]]_vars

(* C9: with a manifest that lacks `platforms`, or an entry of which lacks
   `size` or `checksum`, no fetch attempt is ever started, no file is written
   and the run does not exit 0. *)
C9_MalformedManifestRejected ==
  Malformed(manifest) =>
    /\ \A p \in PlatformKeys : hist[p].attempts = 0
    /\ \A f \in Paths : ~PathTaken(f)
    /\ exitCode # 0

(* C10: permits held plus permits available are SemaphoreCapacity; when the
   run has ended without an interrupt every task of the manifest has held a
   permit, and all permits are available again. *)
C10_PermitsConservedAndGranted ==
  /\ permits + Cardinality(Holders) = SemaphoreCapacity
  /\ (Exited /\ ~interrupted /\ dlState # "none") =>
       /\ \A p \in Platforms : hist[p].acquired
       /\ permits = SemaphoreCapacity

(* ------------------------------------------------------------------ *)
(* Termination                                                         *)
(* ------------------------------------------------------------------ *)
(* The event loop keeps running whatever is ready, and every request ends by
   an answer, an error or the timeout; no interrupt is needed to end a run. *)
Progress == Next /\ interrupted' = interrupted
FairSpec == Spec /\ WF_vars(Progress)

(* The run ends, whatever the servers do. *)
PipelineCompletes == <>Exited

Outcomes == {"Success", "FetchFailed", "ChecksumMismatch"}

(* C11: when the run has ended without an interrupt and the platform tasks
   were created, every platform task has reached one of the terminal outcomes
   Success, FetchFailed, ChecksumMismatch. *)
C11_EveryTaskReachesAnOutcome ==
  (Exited /\ ~interrupted /\ dlState # "none") =>
    \A p \in Platforms : outcome[p] \in Outcomes

(* C12: the changelog is fetched, a state file is written and the run exits
   with status 0 only after download_all_platforms returned with every
   platform in Success; once the outcomes are aggregated with a platform that
   is not Success, the run has ended with status 1, no changelog fetch was
   started and no state file exists. *)
C12_NothingAfterAFailedPlatform ==
  /\ (hist[CHANGELOG].started > 0 \/ stateFiles # {} \/ exitCode = 0) =>
       /\ dlState = "returned"
       /\ \A p \in Platforms : outcome[p] = "Success"
  /\ (Aggregated /\ \E p \in Platforms : outcome[p] # "Success") =>
       /\ Exited
       /\ exitCode = 1
       /\ stateFiles = {}
       /\ pc[CHANGELOG] = "absent"
       /\ hist[CHANGELOG].started = 0

C12_Witness ==
  /\ dlState = "exit"
  /\ exitCode = 1
  /\ stateFiles = {}
  /\ \E p, q \in Platforms :
       outcome[p] = "Success" /\ outcome[q] \in {"FetchFailed", "ChecksumMismatch"}

(* C13: when the run has ended by itself, with either exit status, the file
   of every platform whose outcome is Success exists at the platform's output
   path and hashes to the checksum that was verified for it. *)
C13_VerifiedFileSurvives ==
  (Exited /\ ~interrupted) =>
    \A p \in Platforms :
      outcome[p] = "Success" =>
        /\ disk[OutputFilename(p)].exists
        /\ calculate_sha256(disk, OutputFilename(p)) = hist[p].message[1]

(* A job that has opened its output path at least once. *)
Touched(job) == kind[job] # "none"

(* C14: no two platform tasks of one run open, write, hash or delete the same
   output path. *)
C14_ExclusiveOutputPath ==
  \A p, q \in Platforms :
    (p # q /\ Touched(p) /\ Touched(q)) => OutputFilename(p) # OutputFilename(q)

(* The state of a platform task in the terms of the orchestrator's state
   machine; verification runs inside the step that ends the fetch and shows
   in hist.verified. *)
TaskState(st, out) ==
  IF out \in Outcomes THEN out
  ELSE IF out = "Raised" THEN "Raised"
  ELSE IF st \in {"pending", "waiting"} THEN "Pending"
  ELSE IF Holding(st) THEN "Fetching"
  ELSE IF st = "cancelled" THEN "Cancelled"
  ELSE "Absent"

Allowed(s, t, v, w) ==
  \/ s = t /\ v = w
  \/ s = "Absent" /\ t = "Pending" /\ ~w
  \/ s = "Pending" /\ t = "Fetching" /\ ~w
  \/ s = "Fetching" /\ t = "FetchFailed" /\ ~w
  \/ s = "Fetching" /\ t \in {"Success", "ChecksumMismatch"} /\ ~v /\ w
  \/ s \in {"Pending", "Fetching"} /\ t = "Cancelled" /\ v = w

(* C15: every step takes a platform task along Pending -> Fetching ->
   FetchFailed, or Fetching -> (verification) -> Success or ChecksumMismatch,
   or leaves it where it is; a task that has not ended may also be cancelled
   when the process ends. Verification begins only from Fetching, the three
   outcomes are never left, and no task is Fetching once it was verified. *)
C15_OnlyTheListedTransitions ==
  [][\A p \in PlatformKeys :
       Allowed(TaskState(pc[p], outcome[p]), TaskState(pc'[p], outcome'[p]),
               hist[p].verified, hist'[p].verified)]_vars

(* C16: in the step in which a fetch returns True, the file at the job's
   output path exists and holds exactly the chunks of the response of the
   attempt that completed, in order, and nothing else. *)
C16_FileHoldsTheSuccessfulAttempt ==
  [][\A j \in Jobs :
       (hist[j].fetched = "none" /\ hist'[j].fetched = "ok") =>
         /\ disk[OutputFilename(j)].exists
         /\ disk[OutputFilename(j)].data = ContentOf(j, kind[j], NChunks(j))]_vars

(* C17: in the step in which the fetch of a platform returns True, the
   platform's outcome becomes Success if the lower-cased hash of the file at
   its output path equals the lower-cased checksum of its manifest entry, and
   ChecksumMismatch in every other case. *)
C17_OutcomeFollowsTheComparison ==
  [][\A p \in Platforms :
       (hist[p].fetched = "none" /\ hist'[p].fetched = "ok") =>
         LET path == OutputFilename(p)
             e == EntryOf(p)
         IN outcome'[p] =
              IF /\ e.hasChecksum
                 /\ disk[path].exists
                 /\ Lower(HexDigest(disk[path].data)) = Lower(e.checksum)
              THEN "Success" ELSE "ChecksumMismatch"]_vars

(* The positions in the manifest of the platforms that ended in Success. *)
SuccessIdx == {i \in 1..Len(PlatformSeq) : outcome[PlatformSeq[i].key] = "Success"}

(* C18: once the outcomes are aggregated, the checksum list has one record
   for each platform in Success and no other, the k-th record is that of the
   k-th Success platform in the manifest's order, and it names the hash that
   was verified and the platform's output file. *)
C18_ChecksumsInManifestOrder ==
  Aggregated =>
    /\ Len(checksums) = Cardinality(SuccessIdx)
    /\ \A i \in SuccessIdx :
         LET k == Cardinality({j \in SuccessIdx : j <= i})
             p == PlatformSeq[i].key
         IN /\ checksums[k] = hist[p].message
            /\ checksums[k][2] = OutputFilename(p)
            /\ Lower(checksums[k][1]) = Lower(EntryOf(p).checksum)

C18_Witness ==
  /\ dlState = "returned"
  /\ Len(checksums) >= 2
  /\ checksums[1] # checksums[2]
  /\ \E p \in Platforms : hist[p].failures > 0

(* The interrupt ends the run: status 1, no task alive, no state file. *)
InterruptStopsTheRun ==
  interrupted =>
    /\ Exited
    /\ exitCode = 1
    /\ \A j \in Jobs : ~Live(pc[j]) /\ ~handle[j].open
    /\ stateFiles = {}

(* C19: after an interrupt the run has ended with status 1, no task is alive,
   no state file has been written, and the file of every platform that had
   reached Success is on disk and hashes to the checksum verified for it. *)
C19_InterruptKeepsVerifiedFiles ==
  interrupted =>
    /\ InterruptStopsTheRun
    /\ \A p \in Platforms :
         outcome[p] = "Success" =>
           /\ disk[OutputFilename(p)].exists
           /\ HexDigest(disk[OutputFilename(p)].data) = hist[p].message[1]

(* C20: when download_all_platforms has returned and the run has ended
   without an interrupt, the exit status is 0 and .version, .build_date and
   .checksums are written, whether the changelog was downloaded or not and
   whether it had entries or not; .latest_updates and .release_notes are
   written exactly when entries were extracted, which needs the download. *)
C20_ChangelogFailureIsNotFatal ==
  (dlState = "returned" /\ Exited /\ ~interrupted) =>
    /\ \A p \in Platforms : outcome[p] = "Success"
    /\ exitCode = 0
    /\ {".version", ".build_date", ".checksums"} \subseteq stateFiles
    /\ ".latest_updates" \in stateFiles <=> hist[CHANGELOG].updates = "some"
    /\ ".release_notes" \in stateFiles <=> hist[CHANGELOG].updates = "some"
    /\ hist[CHANGELOG].updates = "some" => hist[CHANGELOG].fetched = "ok"
    /\ hist[CHANGELOG].fetched \in {"ok", "failed"}

C20_Witness ==
  /\ exitCode = 0
  /\ Platforms # {}
  /\ hist[CHANGELOG].fetched = "failed"
  /\ hist[CHANGELOG].failures = MAX_RETRIES
  /\ stateFiles = {".version", ".build_date", ".checksums"}

====
